---- MODULE Spec2Model ----
(***************************************************************************)
(* Billing (point of sale) of the pharmacy client.                         *)
(*                                                                         *)
(* Each Billing page (one per cashier terminal) holds React state: the     *)
(* search results, the cart, the discount percentage, the submission flag  *)
(* and the id of the last invoice.  The pages talk to one store through    *)
(* ApiClient; the store's tables are the ones the schema declares          *)
(* (inventory, sales, sale_items).  The store applies a createSale request *)
(* as the request states it: the schema declares no CHECK on               *)
(* inventory.quantity and no allocation procedure, and the request names   *)
(* the batch (inventory id) and the quantity of every line.                *)
(*                                                                         *)
(* Spec is one terminal building carts and checking out; SpecCart is one   *)
(* terminal changing quantities with the + and - buttons and checking out; *)
(* SpecTwo is two terminals selling the medicine that has a single batch   *)
(* (SpecTwoFair adds the fairness of the runtime); SpecCatalog is one      *)
(* terminal selling while medicines are deleted and stock is received.     *)
(* SpecForm is one terminal filling in the whole form, with responses that *)
(* may be lost; SpecSearch is one terminal typing in the search box while  *)
(* searches are in flight; SpecApi is ApiClient and AuthProvider alone:    *)
(* overlapping requests, the token refresh, sign-out and page load.        *)
(*                                                                         *)
(* Money: every amount is an integer number of 1/10000 of a rupee, so that *)
(* x * pct / 100 and x * 13 / 100 are exact for integer percentages.  The  *)
(* source computes in binary floating point; the identities checked here   *)
(* are between values the source computes by the same expression.          *)
(***************************************************************************)
EXTENDS Integers, Sequences, FiniteSets, TLC

\* ---------------------------------------------------------------- bounds
MaxCartQty == 2      \* largest quantity of one cart line that is explored
MaxSales == 1        \* createSale requests explored per run, one terminal
MaxSalesTwo == 3     \* createSale requests explored per run, two terminals
MaxReceipts == 1     \* stock receipts explored per run
MaxSalesForm == 2    \* createSale requests explored per run, form fields
MaxIssued == 3       \* token pairs the server issues per run, sign-in included

\* ------------------------------------------------------------ the world
Pages == {"p1", "p2"}
Medicines == {"M1", "M2"}
Batches == {"B1", "B2", "B3"}

\* public.inventory: medicine_id, expiry_date
medicine_id == [B1 |-> "M1", B2 |-> "M1", B3 |-> "M2"]
expiry_date == [B1 |-> 1, B2 |-> 2, B3 |-> 1]
\* Inventory.sellingPrice of the batch (10.00, 12.00, 7.00)
sellingPrice == [B1 |-> 100000, B2 |-> 120000, B3 |-> 70000]
\* public.medicines.tax_rate (DECIMAL, default 13.00)
tax_rate == [M1 |-> 13, M2 |-> 5]
\* quantity received into each batch before the pages open
InitQuantity == [B1 |-> 0, B2 |-> 2, B3 |-> 3]

\* values typed into the Discount (%) input
DiscountInputs == {0, 10, 150}
\* values typed into the Customer Name input
CustomerInputs == {"", "Sita"}

\* values typed into the Customer Mobile input
MobileInputs == {"", "9800000000"}
\* values typed into the search box: nothing, or text that matches a medicine
QueryInputs == {""} \cup Medicines

\* invoice numbers the store may generate for a new sale
InvoiceNumbers == 1..MaxSalesTwo

NoReq == [kind |-> "none"]
NoToast == [page |-> "none", message |-> "none"]

\* the callers of ApiClient.request that run side by side
Callers == {"c1", "c2"}
NoCall == [pc |-> "idle"]

VARIABLES
  medicines,           \* public.medicines: the rows that exist
  inventory,           \* public.inventory: the rows (batches) that exist
  quantity,            \* public.inventory.quantity, per batch
  received,            \* total quantity ever received into the batch
  allocated,           \* total quantity ever sold from the batch
  sales,               \* public.sales with their sale_items, in insert order
  searchResults,       \* per page: useState searchResults
  cart,                \* per page: useState cart
  customerName,        \* per page: useState customerName
  customerMobile,      \* per page: useState customerMobile
  searchQuery,         \* per page: useState searchQuery ("" or a medicine)
  searching,           \* per page: the queries of the searches in flight
  debounceTimer,       \* per page: the 500 ms timer of the search is set
  discountPercentage,  \* per page: useState discountPercentage
  isSubmitting,        \* per page: useState isSubmitting
  lastInvoiceId,       \* per page: useState lastInvoiceId (0 = null)
  toast,               \* the toast the latest step raised, NoToast if none
  saleReq,             \* per page: createSale request in flight
  saleResp,            \* per page: createSale response not yet handled
  qtyReq,              \* per page: updateQuantity awaiting getMedicineBatches
  accessToken,         \* ApiClient.accessToken (0 = null)
  refreshToken,        \* ApiClient.refreshToken (0 = null)
  localStorage,        \* the items accessToken and refreshToken (0 = absent)
  user,                \* AuthProvider: user, profile and userRole
  calls,               \* the calls of ApiClient.request, by caller
  issued               \* token pairs the server has issued so far

formVars == <<customerMobile, searchQuery, searching, debounceTimer>>

apiVars == <<accessToken, refreshToken, localStorage, user, calls, issued>>

vars == <<medicines, inventory, quantity, received, allocated, sales, searchResults, cart,
          customerName, discountPercentage, isSubmitting, lastInvoiceId, toast, saleReq,
          saleResp, qtyReq, formVars, apiVars>>

billingVars == <<searchResults, cart, customerName, discountPercentage,
                 isSubmitting, lastInvoiceId, toast, saleReq, saleResp, qtyReq,
                 formVars>>

storeVars == <<medicines, inventory, quantity, received, allocated, sales>>

\* ------------------------------------------------------------- helpers
RECURSIVE SumOver(_, _)
SumOver(f, S) ==
  IF S = {} THEN 0
  ELSE LET x == CHOOSE y \in S : TRUE IN f[x] + SumOver(f, S \ {x})

RECURSIVE SeqSum(_)
SeqSum(s) == IF s = <<>> THEN 0 ELSE Head(s) + SeqSum(Tail(s))

\* earliest expiry first (the batches of one medicine differ in expiry)
Earlier(a, b) == expiry_date[a] < expiry_date[b]

RECURSIVE FefoOrder(_)
FefoOrder(S) ==
  IF S = {} THEN <<>>
  ELSE LET b == CHOOSE x \in S : \A y \in S \ {x} : Earlier(x, y)
       IN <<b>> \o FefoOrder(S \ {b})

\* batches of a medicine that have stock
AvailableBatches(m) ==
  {b \in inventory : medicine_id[b] = m /\ quantity[b] > 0}

BatchView(b) ==
  [batchId |-> b, quantity |-> quantity[b], sellingPrice |-> sellingPrice[b]]

\* GET /billing/medicines/search for a query that matches medicine m: the
\* entry of m with its batches, earliest expiry first
searchMedicinesForBilling(m) ==
  [id |-> m,
   batches |-> [i \in 1..Cardinality(AvailableBatches(m)) |->
                  BatchView(FefoOrder(AvailableBatches(m))[i])],
   availableStock |-> SumOver(quantity, AvailableBatches(m)),
   hasStock |-> AvailableBatches(m) # {}]

\* GET /billing/medicines/:id/batches, summed as updateQuantity sums it
getMedicineBatches(m) == SumOver(quantity, AvailableBatches(m))

\* fewer than n createSale requests were issued and not refused
CanSubmit(n) == Len(sales) + Cardinality({p \in Pages : saleReq[p] # NoReq}) < n
Receipts == SumOver(received, Batches) - SumOver(InitQuantity, Batches)

\* ---------------------------------------------------------------- Init
Init ==
  /\ medicines = Medicines
  /\ inventory = Batches
  /\ quantity = InitQuantity
  /\ received = InitQuantity
  /\ allocated = [b \in Batches |-> 0]
  /\ sales = <<>>
  /\ searchResults = [p \in Pages |-> {}]
  /\ cart = [p \in Pages |-> <<>>]
  /\ customerName = [p \in Pages |-> ""]
  /\ discountPercentage = [p \in Pages |-> 0]
  /\ isSubmitting = [p \in Pages |-> FALSE]
  /\ lastInvoiceId = [p \in Pages |-> 0]
  /\ toast = NoToast
  /\ saleReq = [p \in Pages |-> NoReq]
  /\ saleResp = [p \in Pages |-> NoReq]
  /\ qtyReq = [p \in Pages |-> NoReq]
  /\ customerMobile = [p \in Pages |-> ""]
  /\ searchQuery = [p \in Pages |-> ""]
  /\ searching = [p \in Pages |-> {}]
  /\ debounceTimer = [p \in Pages |-> FALSE]
  /\ accessToken = 1
  /\ refreshToken = 1
  /\ localStorage = [accessToken |-> 1, refreshToken |-> 1]
  /\ user = "u1"
  /\ calls = [c \in Callers |-> NoCall]
  /\ issued = 1

\* ------------------------------------------------------- Billing page
\* searchMedicines(query), the query matching medicine m: the response
\* replaces searchResults (empty when no medicine matches); ok = the request
\* returned success and data (a request that throws empties the results and
\* raises a toast)
searchMedicines(p, m, ok) ==
  /\ searchResults' = [searchResults EXCEPT ![p] =
        IF ok /\ m \in medicines THEN {searchMedicinesForBilling(m)} ELSE {}]
  /\ toast' = IF ok THEN NoToast
              ELSE [page |-> p, message |-> "Failed to search medicines"]
  /\ UNCHANGED <<storeVars, cart, customerName, discountPercentage, isSubmitting,
                 lastInvoiceId, saleReq, saleResp, qtyReq>>
  /\ UNCHANGED <<formVars, apiVars>>

\* a lookup that compares the id of the batch of the item
CartIndex_ByBatch(c, m) == {i \in 1..Len(c) : c[i].inventory = m}

\* positions of medicine m in cart c
CartIndex(c, m) == {i \in 1..Len(c) : c[i].medicine = m}

\* cart.find(...): the first item of medicine m
FindItem(c, m) ==
  c[CHOOSE i \in CartIndex(c, m) : \A j \in CartIndex(c, m) : i <= j]

\* cart.map(...): the quantity of every item of medicine m replaced by q
WithQuantity(c, m, q) ==
  [i \in 1..Len(c) |-> IF c[i].medicine = m THEN [c[i] EXCEPT !.quantity = q]
                                            ELSE c[i]]

\* cart.filter(...): the items of medicine m removed
Without(c, m) == SelectSeq(c, LAMBDA it : it.medicine # m)

\* the cart item addToCart appends for a medicine that is not in the cart
NewCartItem(md) ==
  [medicine |-> md.id,
   inventory |-> md.batches[1].batchId,
   quantity |-> 1,
   unitPrice |-> md.batches[1].sellingPrice]

\* addToCart(medicineData)
addToCart(p, md) ==
  /\ md \in searchResults[p]
  /\ IF ~md.hasStock \/ Len(md.batches) = 0
     THEN /\ toast' = [page |-> p, message |-> "No available stock"]
          /\ UNCHANGED cart
     ELSE IF CartIndex(cart[p], md.id) # {}
     THEN LET totalRequested == FindItem(cart[p], md.id).quantity + 1
          IN IF totalRequested > md.availableStock
             THEN /\ toast' = [page |-> p, message |-> "Insufficient stock",
                               medicine |-> md.id,
                               available |-> md.availableStock]
                  /\ UNCHANGED cart
             ELSE /\ totalRequested <= MaxCartQty
                  /\ cart' = [cart EXCEPT ![p] =
                       [i \in 1..Len(cart[p]) |->
                          IF cart[p][i].medicine = md.id
                          THEN [cart[p][i] EXCEPT
                                  !.quantity = cart[p][i].quantity + 1]
                          ELSE cart[p][i]]]
                  /\ toast' = NoToast
     ELSE /\ cart' = [cart EXCEPT ![p] = Append(cart[p], NewCartItem(md))]
          /\ toast' = NoToast
  /\ UNCHANGED <<storeVars, searchResults, customerName, discountPercentage, isSubmitting,
                 lastInvoiceId, saleReq, saleResp, qtyReq>>
  /\ UNCHANGED <<formVars, apiVars>>

\* removeFromCart(medicineId), from the bin button of a cart item
removeFromCart(p, m) ==
  /\ CartIndex(cart[p], m) # {}
  /\ cart' = [cart EXCEPT ![p] = Without(cart[p], m)]
  /\ toast' = NoToast
  /\ UNCHANGED <<storeVars, searchResults, customerName, discountPercentage, isSubmitting,
                 lastInvoiceId, saleReq, saleResp, qtyReq>>
  /\ UNCHANGED <<formVars, apiVars>>

\* a + / - handler that removes the item only below zero
RemovesItem_BelowZero(newQuantity) == newQuantity < 0

\* if (newQuantity <= 0): the item is removed instead of updated
RemovesItem(newQuantity) == newQuantity <= 0

\* updateQuantity(medicineId, delta), up to the await of getMedicineBatches
\* (one stock check awaited per page at a time)
updateQuantity(p, m, delta) ==
  /\ CartIndex(cart[p], m) # {}
  /\ qtyReq[p] = NoReq
  /\ LET newQuantity == FindItem(cart[p], m).quantity + delta
     IN IF RemovesItem(newQuantity)
        THEN /\ cart' = [cart EXCEPT ![p] = Without(cart[p], m)]
             /\ UNCHANGED qtyReq
        ELSE /\ newQuantity <= MaxCartQty
             /\ qtyReq' = [qtyReq EXCEPT ![p] =
                  [kind |-> "getMedicineBatches", cart |-> cart[p],
                   medicineId |-> m, newQuantity |-> newQuantity]]
             /\ UNCHANGED cart
  /\ toast' = NoToast
  /\ UNCHANGED <<storeVars, searchResults, customerName, discountPercentage, isSubmitting,
                 lastInvoiceId, saleReq, saleResp>>
  /\ UNCHANGED <<formVars, apiVars>>

\* updateQuantity after the await; ok = the request returned success and data
\* (otherwise it returned success: false or threw, and the check is skipped)
updateQuantityResume(p, ok) ==
  /\ qtyReq[p] # NoReq
  /\ LET r == qtyReq[p]
         totalAvailable == getMedicineBatches(r.medicineId)
     IN IF ok /\ r.newQuantity > totalAvailable
        THEN /\ toast' = [page |-> p, message |-> "Insufficient stock",
                          medicine |-> r.medicineId,
                          available |-> totalAvailable]
             /\ UNCHANGED cart
        ELSE /\ cart' = [cart EXCEPT ![p] =
                           WithQuantity(r.cart, r.medicineId, r.newQuantity)]
             /\ toast' = NoToast
  /\ qtyReq' = [qtyReq EXCEPT ![p] = NoReq]
  /\ UNCHANGED <<storeVars, searchResults, customerName, discountPercentage, isSubmitting,
                 lastInvoiceId, saleReq, saleResp>>
  /\ UNCHANGED <<formVars, apiVars>>

\* onChange of the Discount (%) input, shown while the cart has items:
\* setDiscountPercentage(parseFloat(value) || 0)
setDiscountPercentage(p, d) ==
  /\ cart[p] # <<>>
  /\ discountPercentage' = [discountPercentage EXCEPT ![p] = d]
  /\ toast' = NoToast
  /\ UNCHANGED <<storeVars, searchResults, cart, customerName, isSubmitting,
                 lastInvoiceId, saleReq, saleResp, qtyReq>>
  /\ UNCHANGED <<formVars, apiVars>>

\* onChange of the Customer Name input, shown while the cart has items
\* (customerMobile is a second field handled the same way)
setCustomerName(p, v) ==
  /\ cart[p] # <<>>
  /\ customerName' = [customerName EXCEPT ![p] = v]
  /\ toast' = NoToast
  /\ UNCHANGED <<storeVars, searchResults, cart, discountPercentage,
                 isSubmitting, lastInvoiceId, saleReq, saleResp, qtyReq>>
  /\ UNCHANGED <<formVars, apiVars>>

\* onChange of the Customer Mobile input, shown while the cart has items
setCustomerMobile(p, v) ==
  /\ cart[p] # <<>>
  /\ customerMobile' = [customerMobile EXCEPT ![p] = v]
  /\ toast' = NoToast
  /\ UNCHANGED <<storeVars, searchResults, cart, customerName,
                 discountPercentage, isSubmitting, lastInvoiceId, saleReq,
                 saleResp, qtyReq, searchQuery, searching, debounceTimer,
                 apiVars>>

\* onChange of the search box, with the effect on [searchQuery] that follows
\* the render: an empty query empties the results, any other query sets the
\* 500 ms timer anew (the cleanup clears the timer of the query before)
setSearchQuery(p, q) ==
  /\ searchQuery[p] # q
  /\ searchQuery' = [searchQuery EXCEPT ![p] = q]
  /\ debounceTimer' = [debounceTimer EXCEPT ![p] = (q # "")]
  /\ searchResults' = [searchResults EXCEPT ![p] = IF q = "" THEN {} ELSE @]
  /\ toast' = NoToast
  /\ UNCHANGED <<storeVars, cart, customerName, customerMobile,
                 discountPercentage, isSubmitting, lastInvoiceId, saleReq,
                 saleResp, qtyReq, searching, apiVars>>

\* the timer fires: searchMedicines(searchQuery), up to the await
debounceFires(p) ==
  /\ debounceTimer[p]
  /\ debounceTimer' = [debounceTimer EXCEPT ![p] = FALSE]
  /\ searching' = [searching EXCEPT ![p] = @ \cup {searchQuery[p]}]
  /\ toast' = NoToast
  /\ UNCHANGED <<storeVars, searchResults, cart, customerName, customerMobile,
                 discountPercentage, isSubmitting, lastInvoiceId, saleReq,
                 saleResp, qtyReq, searchQuery, apiVars>>

\* handleSearchKeyPress, the Enter key on a query that is not empty:
\* searchMedicines(searchQuery), up to the await (the timer stays set)
handleSearchKeyPress(p) ==
  /\ searchQuery[p] # ""
  /\ searching' = [searching EXCEPT ![p] = @ \cup {searchQuery[p]}]
  /\ toast' = NoToast
  /\ UNCHANGED <<storeVars, searchResults, cart, customerName, customerMobile,
                 discountPercentage, isSubmitting, lastInvoiceId, saleReq,
                 saleResp, qtyReq, searchQuery, debounceTimer, apiVars>>

\* setSearchResults(response.data), or setSearchResults([]) on a failure
ResultsAfter(p, q, ok) ==
  IF ok /\ q \in medicines THEN {searchMedicinesForBilling(q)} ELSE {}

\* searchMedicines(q) after the await, for a search of query q in flight
searchMedicinesResume(p, q, ok) ==
  /\ q \in searching[p]
  /\ searching' = [searching EXCEPT ![p] = @ \ {q}]
  /\ searchResults' = [searchResults EXCEPT ![p] = ResultsAfter(p, q, ok)]
  /\ toast' = IF ok THEN NoToast
              ELSE [page |-> p, message |-> "Failed to search medicines"]
  /\ UNCHANGED <<storeVars, cart, customerName, customerMobile,
                 discountPercentage, isSubmitting, lastInvoiceId, saleReq,
                 saleResp, qtyReq, searchQuery, debounceTimer, apiVars>>

\* totals whose total leaves the discount out
calculateTotals_NoDiscount(c, pct) ==
  LET subtotal == SeqSum([i \in 1..Len(c) |-> c[i].unitPrice * c[i].quantity])
      discount == (subtotal * pct) \div 100
      afterDiscount == subtotal - discount
      vatAmount == (afterDiscount * 13) \div 100
  IN [subtotal |-> subtotal, discount |-> discount,
      vatAmount |-> vatAmount, total |-> subtotal + vatAmount]

\* totals that take the VAT rate from the first medicine of the cart
calculateTotals_TaxRate(c, pct) ==
  LET subtotal == SeqSum([i \in 1..Len(c) |-> c[i].unitPrice * c[i].quantity])
      discount == (subtotal * pct) \div 100
      afterDiscount == subtotal - discount
      vatRate == IF c = <<>> THEN 13 ELSE tax_rate[c[1].medicine]
      vatAmount == (afterDiscount * vatRate) \div 100
  IN [subtotal |-> subtotal, discount |-> discount,
      vatAmount |-> vatAmount, total |-> afterDiscount + vatAmount]

calculateTotals(c, pct) ==
  LET subtotal == SeqSum([i \in 1..Len(c) |-> c[i].unitPrice * c[i].quantity])
      discount == (subtotal * pct) \div 100
      afterDiscount == subtotal - discount
      vatRate == 13
      vatAmount == (afterDiscount * vatRate) \div 100
      total == afterDiscount + vatAmount
  IN [subtotal |-> subtotal, discount |-> discount,
      vatAmount |-> vatAmount, total |-> total]

\* the saleData object handleCheckout builds
saleData(c, name, mobile, pct) ==
  [customerName |-> name,
   customerMobile |-> mobile,
   items |-> [i \in 1..Len(c) |->
                [medicine |-> c[i].medicine,
                 inventory |-> c[i].inventory,
                 quantity |-> c[i].quantity,
                 unitPrice |-> c[i].unitPrice,
                 subtotal |-> c[i].unitPrice * c[i].quantity]],
   subtotal |-> calculateTotals(c, pct).subtotal,
   discount |-> calculateTotals(c, pct).discount,
   discountPercentage |-> pct,
   vatRate |-> 13,
   vatAmount |-> calculateTotals(c, pct).vatAmount,
   totalAmount |-> calculateTotals(c, pct).total,
   amountPaid |-> calculateTotals(c, pct).total,
   amountDue |-> 0]

\* a checkout that never looks at the length of the cart
CartIsEmpty_Never(c) == FALSE

\* if (cart.length === 0)
CartIsEmpty(c) == Len(c) = 0

\* handleCheckout, up to the await of createSale (the Complete Sale button
\* is disabled while isSubmitting)
handleCheckout(p) ==
  IF CartIsEmpty(cart[p])
  THEN /\ toast' = [page |-> p, message |-> "Cart is empty"]
       /\ UNCHANGED <<storeVars, searchResults, cart, customerName, discountPercentage,
                      isSubmitting, lastInvoiceId, saleReq, saleResp, qtyReq,
                      formVars, apiVars>>
  ELSE /\ ~isSubmitting[p]
       /\ isSubmitting' = [isSubmitting EXCEPT ![p] = TRUE]
       /\ saleReq' = [saleReq EXCEPT ![p] =
            [kind |-> "createSale",
             data |-> saleData(cart[p], customerName[p], customerMobile[p],
                               discountPercentage[p])]]
       /\ toast' = NoToast
       /\ UNCHANGED <<storeVars, searchResults, cart, customerName, discountPercentage,
                      lastInvoiceId, saleResp, qtyReq, formVars, apiVars>>

\* a handler that clears the flag only at the end of the success branch
SubmittingAfter_OnlyOnSuccess(kind) == kind # "ok"

\* finally { setIsSubmitting(false) }: cleared whatever the outcome
SubmittingAfter(kind) == FALSE

\* a handler that empties the cart whatever the outcome
CartAfter_Cleared(kind, c) == <<>>

\* setCart([]) in the success branch only
CartAfter(kind, c) == IF kind = "ok" THEN <<>> ELSE c

\* handleCheckout after the await: the response, or the thrown error
handleCheckoutResume(p) ==
  /\ saleResp[p] # NoReq
  /\ IF saleResp[p].kind = "ok"
     THEN /\ lastInvoiceId' = [lastInvoiceId EXCEPT ![p] = saleResp[p].id]
          /\ toast' = [page |-> p, message |-> "Sale completed successfully!"]
          /\ customerName' = [customerName EXCEPT ![p] = ""]
          /\ customerMobile' = [customerMobile EXCEPT ![p] = ""]
          /\ discountPercentage' = [discountPercentage EXCEPT ![p] = 0]
          /\ searchQuery' = [searchQuery EXCEPT ![p] = ""]
          /\ debounceTimer' = [debounceTimer EXCEPT ![p] = FALSE]
          /\ searchResults' = [searchResults EXCEPT ![p] = {}]
     ELSE /\ toast' = [page |-> p, message |-> saleResp[p].message]
          /\ UNCHANGED <<lastInvoiceId, customerName, customerMobile,
                         discountPercentage, searchQuery, debounceTimer,
                         searchResults>>
  /\ cart' = [cart EXCEPT ![p] = CartAfter(saleResp[p].kind, cart[p])]
  /\ isSubmitting' = [isSubmitting EXCEPT ![p] =
                        SubmittingAfter(saleResp[p].kind)]
  /\ saleResp' = [saleResp EXCEPT ![p] = NoReq]
  /\ UNCHANGED <<storeVars, saleReq, qtyReq, searching, apiVars>>

\* ---------------------------------------------------------------- store
\* quantity the lines of a request take from batch b
RECURSIVE LineQuantity(_, _)
LineQuantity(items, b) ==
  IF items = <<>> THEN 0
  ELSE (IF Head(items).inventory = b THEN Head(items).quantity ELSE 0)
       + LineQuantity(Tail(items), b)

\* the sale_items rows of a request: batch (inventory_id) and quantity
SaleItems(items) ==
  [i \in 1..Len(items) |->
     [inventory_id |-> items[i].inventory, quantity |-> items[i].quantity]]

\* sale_items.medicine_id REFERENCES medicines(id), sale_items.inventory_id
\* REFERENCES inventory(id): every line names rows that exist
ForeignKeysHold(items) ==
  \A i \in 1..Len(items) :
    items[i].medicine \in medicines /\ items[i].inventory \in inventory

\* a store without the UNIQUE constraint on invoice_number
InvoiceNumberTaken_Never(n) == FALSE

\* invoice_number TEXT NOT NULL UNIQUE: a row of sales holds the number
InvoiceNumberTaken(n) == \E i \in 1..Len(sales) : sales[i].invoice_number = n

\* an insert that takes the place of the latest row
InsertSale_Replace(rows, row) ==
  IF rows = <<>> THEN <<row>> ELSE [rows EXCEPT ![Len(rows)] = row]

\* INSERT INTO public.sales (the only statement a page issues on sales)
InsertSale(rows, row) == Append(rows, row)

\* POST /sales reaches the store with invoice number n generated for it: one
\* row in sales, one row in sale_items per line, and the quantity of every
\* named batch reduced by the line quantity; an insert whose invoice number
\* is taken is refused and nothing is stored.
\* delivered = the response reaches the page (otherwise the fetch throws).
createSale(p, delivered, n) ==
  /\ saleReq[p] # NoReq
  /\ IF ~ForeignKeysHold(saleReq[p].data.items)
     THEN /\ saleResp' = [saleResp EXCEPT ![p] =
                [kind |-> "error", id |-> 0,
                 message |-> "foreign key violation"]]
          /\ UNCHANGED <<sales, quantity, allocated>>
     ELSE IF InvoiceNumberTaken(n)
     THEN /\ saleResp' = [saleResp EXCEPT ![p] =
                [kind |-> "error", id |-> 0,
                 message |-> "duplicate invoice_number"]]
          /\ UNCHANGED <<sales, quantity, allocated>>
     ELSE /\ sales' = InsertSale(sales,
                [id |-> Len(sales) + 1, invoice_number |-> n,
                 sold_by |-> p, status |-> "completed",
                 sale_items |-> SaleItems(saleReq[p].data.items)])
          /\ quantity' = [b \in Batches |->
                quantity[b] - LineQuantity(saleReq[p].data.items, b)]
          /\ allocated' = [b \in Batches |->
                allocated[b] + LineQuantity(saleReq[p].data.items, b)]
          /\ saleResp' = [saleResp EXCEPT ![p] =
                IF delivered
                THEN [kind |-> "ok", id |-> Len(sales) + 1, message |-> ""]
                ELSE [kind |-> "error", id |-> 0,
                      message |-> "Unable to connect to server"]]
  /\ saleReq' = [saleReq EXCEPT ![p] = NoReq]
  /\ toast' = NoToast
  /\ UNCHANGED <<medicines, inventory, received, searchResults, cart, customerName,
                 discountPercentage, isSubmitting, lastInvoiceId, qtyReq>>
  /\ UNCHANGED <<formVars, apiVars>>

\* POST /sales fails (network error, non-OK status): nothing is stored
createSaleFails(p) ==
  /\ saleReq[p] # NoReq
  /\ saleResp' = [saleResp EXCEPT ![p] =
        [kind |-> "error", id |-> 0, message |-> "Request failed"]]
  /\ saleReq' = [saleReq EXCEPT ![p] = NoReq]
  /\ toast' = NoToast
  /\ UNCHANGED <<storeVars, searchResults, cart, customerName, discountPercentage,
                 isSubmitting, lastInvoiceId, qtyReq>>
  /\ UNCHANGED <<formVars, apiVars>>

\* addInventory / stockAdjustment: one unit received into batch b
stockAdjustment(b) ==
  /\ Receipts < MaxReceipts
  /\ b \in inventory
  /\ quantity' = [quantity EXCEPT ![b] = quantity[b] + 1]
  /\ received' = [received EXCEPT ![b] = received[b] + 1]
  /\ toast' = NoToast
  /\ UNCHANGED <<medicines, inventory, allocated, sales, searchResults, cart, customerName, discountPercentage,
                 isSubmitting, lastInvoiceId, saleReq, saleResp, qtyReq>>
  /\ UNCHANGED <<formVars, apiVars>>

\* a row of sale_items references medicine m or one of its batches
\* (both references are declared without ON DELETE: the delete is refused)
Referenced(m) ==
  \E i \in 1..Len(sales) :
    \E j \in 1..Len(sales[i].sale_items) :
      medicine_id[sales[i].sale_items[j].inventory_id] = m

\* handleDelete(id) of the Medicines page, confirmed: DELETE /medicines/:id.
\* inventory.medicine_id is declared ON DELETE CASCADE: the batches of the
\* medicine are deleted with it.  ok = the request reached the store.
deleteMedicine(m, ok) ==
  /\ m \in medicines
  /\ IF ok /\ ~Referenced(m)
     THEN /\ medicines' = medicines \ {m}
          /\ inventory' = {b \in inventory : medicine_id[b] # m}
          /\ toast' = [page |-> "Medicines",
                       message |-> "Medicine deleted successfully"]
     ELSE /\ toast' = [page |-> "Medicines",
                       message |-> "Failed to delete medicine"]
          /\ UNCHANGED <<medicines, inventory>>
  /\ UNCHANGED <<quantity, received, allocated, sales, searchResults, cart,
                 customerName, discountPercentage, isSubmitting, lastInvoiceId,
                 saleReq, saleResp, qtyReq>>
  /\ UNCHANGED <<formVars, apiVars>>

\* ----------------------------------------------------------------- Next
\* one terminal: search, cart, discount, checkout
Next ==
  \/ \E m \in Medicines, ok \in BOOLEAN : searchMedicines("p1", m, ok)
  \/ \E md \in searchResults["p1"] : addToCart("p1", md)
  \/ \E m \in Medicines : removeFromCart("p1", m)
  \/ \E d \in DiscountInputs : setDiscountPercentage("p1", d)
  \/ \E v \in CustomerInputs : setCustomerName("p1", v)
  \/ (cart["p1"] = <<>> \/ CanSubmit(MaxSales)) /\ handleCheckout("p1")
  \/ handleCheckoutResume("p1")
  \/ \E delivered \in BOOLEAN : createSale("p1", delivered, Len(sales) + 1)
  \/ createSaleFails("p1")
  \/ \E b \in Batches : stockAdjustment(b)

Spec == Init /\ [][Next]_vars

\* one terminal: search, cart, the + and - buttons, checkout
NextCart ==
  \/ \E m \in Medicines, ok \in BOOLEAN : searchMedicines("p1", m, ok)
  \/ \E md \in searchResults["p1"] : addToCart("p1", md)
  \/ \E m \in Medicines : removeFromCart("p1", m)
  \/ \E m \in Medicines, delta \in {-1, 1} : updateQuantity("p1", m, delta)
  \/ \E ok \in BOOLEAN : updateQuantityResume("p1", ok)
  \/ (cart["p1"] = <<>> \/ CanSubmit(MaxSales)) /\ handleCheckout("p1")
  \/ handleCheckoutResume("p1")
  \/ createSale("p1", TRUE, Len(sales) + 1)
  \/ createSaleFails("p1")
  \/ \E b \in Batches : stockAdjustment(b)

SpecCart == Init /\ [][NextCart]_vars

\* two terminals selling the medicine that has one batch
NextTwo ==
  \/ \E p \in Pages, ok \in BOOLEAN : searchMedicines(p, "M2", ok)
  \/ \E p \in Pages : \E md \in searchResults[p] : addToCart(p, md)
  \/ \E p \in Pages :
       (cart[p] = <<>> \/ CanSubmit(MaxSalesTwo)) /\ handleCheckout(p)
  \/ \E p \in Pages : handleCheckoutResume(p)
  \/ \E p \in Pages, n \in InvoiceNumbers : createSale(p, TRUE, n)
  \/ \E p \in Pages : createSaleFails(p)

SpecTwo == Init /\ [][NextTwo]_vars

\* two terminals, with what the runtime guarantees: a request that was sent
\* is answered or fails (fetch settles), and the continuation of an await
\* runs once its promise has settled
SpecTwoFair ==
  /\ SpecTwo
  /\ \A p \in Pages :
       /\ WF_vars((\E n \in InvoiceNumbers : createSale(p, TRUE, n))
                  \/ createSaleFails(p))
       /\ WF_vars(handleCheckoutResume(p))

\* one terminal selling while the Medicines and Inventory pages are in use
NextCatalog ==
  \/ \E m \in Medicines, ok \in BOOLEAN : searchMedicines("p1", m, ok)
  \/ \E md \in searchResults["p1"] : addToCart("p1", md)
  \/ (cart["p1"] = <<>> \/ CanSubmit(MaxSales)) /\ handleCheckout("p1")
  \/ handleCheckoutResume("p1")
  \/ createSale("p1", TRUE, Len(sales) + 1)
  \/ createSaleFails("p1")
  \/ \E b \in Batches : stockAdjustment(b)
  \/ \E m \in Medicines, ok \in BOOLEAN : deleteMedicine(m, ok)

SpecCatalog == Init /\ [][NextCatalog]_vars

\* ------------------------------------------------------------ ApiClient
\* A token pair is a number, 0 for none; the pair of the sign-in is 1 and
\* every successful refresh is answered with a pair not issued before.  user
\* stands for user, profile and userRole, which are set together.

\* endpoints: any data request, /auth/logout, and /auth/me of fetchUserData
Endpoints == {"data", "logout", "me"}
\* what a fetch settles with: a status, or 0 for a thrown network error
FetchOutcomes == {0, 200, 401, 500}

\* clearTokens that leaves the items of localStorage in place
clearTokens_MemoryOnly ==
  [accessToken |-> 0, refreshToken |-> 0, localStorage |-> localStorage]

\* clearTokens: both fields null, both items removed
clearTokens ==
  [accessToken |-> 0, refreshToken |-> 0,
   localStorage |-> [accessToken |-> 0, refreshToken |-> 0]]

\* setTokens(accessToken, refreshToken) with the pair n
setTokens(n) ==
  [accessToken |-> n, refreshToken |-> n,
   localStorage |-> [accessToken |-> n, refreshToken |-> n]]

\* the tokens as they are
heldTokens ==
  [accessToken |-> accessToken, refreshToken |-> refreshToken,
   localStorage |-> localStorage]

\* a refresh after any response of status 401
MayRefresh_Again(call, status) == status = 401 /\ refreshToken # 0

\* response.status === 401 && this.refreshToken, tested on the first response
\* only: the second fetch is inside the branch
MayRefresh(call, status) ==
  status = 401 /\ refreshToken # 0 /\ call.sends = 1

\* request is called: the first fetch is sent
Started(e) == [pc |-> "fetch", endpoint |-> e, sends |-> 1, refreshes |-> 0]

\* request returns or throws with tokens t, and the caller continues: logout
\* clears the tokens after a request that returned, signOut then sets the
\* user to null in its finally; fetchUserData sets the user, or clears the
\* tokens and the user in its catch
Finish(c, result, t) ==
  LET e == calls[c].endpoint
      after == IF \/ e = "logout" /\ result = "ok"
                  \/ e = "me" /\ result = "error"
               THEN clearTokens ELSE t
  IN /\ calls' = [calls EXCEPT ![c] =
                    [pc |-> "done", endpoint |-> e, sends |-> @.sends,
                     refreshes |-> @.refreshes, result |-> result]]
     /\ accessToken' = after.accessToken
     /\ refreshToken' = after.refreshToken
     /\ localStorage' = after.localStorage
     /\ user' = CASE e = "logout" -> "none"
                  [] e = "me" -> IF result = "ok" THEN "u1" ELSE "none"
                  [] OTHER -> user

\* a page of the signed-in user calls a data endpoint
request(c) ==
  /\ user # "none"
  /\ calls[c].pc \in {"idle", "done"}
  /\ calls' = [calls EXCEPT ![c] = Started("data")]
  /\ UNCHANGED <<storeVars, billingVars, accessToken, refreshToken,
                 localStorage, user, issued>>

\* signOut, up to the await in logout
signOut(c) ==
  /\ user # "none"
  /\ calls[c].pc \in {"idle", "done"}
  /\ calls' = [calls EXCEPT ![c] = Started("logout")]
  /\ UNCHANGED <<storeVars, billingVars, accessToken, refreshToken,
                 localStorage, user, issued>>

\* a fetch of request settles: a network error is thrown on; a 401 with a
\* refresh token held starts the refresh, whose body carries that token;
\* any other response is returned when OK and thrown otherwise
fetchSettles(c, status) ==
  /\ calls[c].pc = "fetch"
  /\ IF MayRefresh(calls[c], status)
     THEN /\ calls' = [calls EXCEPT ![c] =
                         [pc |-> "refresh", endpoint |-> @.endpoint,
                          sends |-> @.sends, refreshes |-> @.refreshes + 1,
                          sentToken |-> refreshToken]]
          /\ UNCHANGED <<accessToken, refreshToken, localStorage, user>>
     ELSE Finish(c, IF status = 200 THEN "ok" ELSE "error", heldTokens)
  /\ UNCHANGED <<storeVars, billingVars, issued>>

\* refreshAccessToken after its await: a successful answer stores the new
\* pair and the request is sent again; any other answer, or a thrown error,
\* clears the tokens, and the 401 response is thrown as the error
refreshSettles(c, ok) ==
  /\ calls[c].pc = "refresh"
  /\ IF ok
     THEN /\ issued < MaxIssued
          /\ issued' = issued + 1
          /\ accessToken' = setTokens(issued + 1).accessToken
          /\ refreshToken' = setTokens(issued + 1).refreshToken
          /\ localStorage' = setTokens(issued + 1).localStorage
          /\ calls' = [calls EXCEPT ![c] =
                         [pc |-> "fetch", endpoint |-> @.endpoint,
                          sends |-> @.sends + 1, refreshes |-> @.refreshes]]
          /\ UNCHANGED user
     ELSE /\ Finish(c, "error", clearTokens)
          /\ UNCHANGED issued
  /\ UNCHANGED <<storeVars, billingVars>>

\* the page is loaded again: the requests of the old page are gone, the
\* constructor loads the tokens from localStorage, and the effect of
\* AuthProvider calls fetchUserData when an access token is stored
pageLoad ==
  /\ accessToken' = localStorage.accessToken
  /\ refreshToken' = localStorage.refreshToken
  /\ user' = "none"
  /\ calls' = [c \in Callers |->
                IF c = "c1" /\ localStorage.accessToken # 0
                THEN Started("me") ELSE NoCall]
  /\ UNCHANGED <<storeVars, billingVars, localStorage, issued>>

\* one signed-in browser tab whose requests overlap
NextApi ==
  \/ \E c \in Callers : request(c)
  \/ \E c \in Callers : signOut(c)
  \/ \E c \in Callers, status \in FetchOutcomes : fetchSettles(c, status)
  \/ \E c \in Callers, ok \in BOOLEAN : refreshSettles(c, ok)
  \/ pageLoad

SpecApi == Init /\ [][NextApi]_vars

\* one terminal filling every field of the form, with responses that may be
\* lost; the cart is emptied by a successful checkout only
NextForm ==
  \/ \E q \in {"", "M2"} : setSearchQuery("p1", q)
  \/ debounceFires("p1")
  \/ \E ok \in BOOLEAN : searchMedicinesResume("p1", "M2", ok)
  \/ \E md \in searchResults["p1"] : addToCart("p1", md)
  \/ \E d \in {0, 10} : setDiscountPercentage("p1", d)
  \/ \E v \in CustomerInputs : setCustomerName("p1", v)
  \/ \E v \in MobileInputs : setCustomerMobile("p1", v)
  \/ (cart["p1"] = <<>> \/ CanSubmit(MaxSalesForm)) /\ handleCheckout("p1")
  \/ handleCheckoutResume("p1")
  \/ \E delivered \in BOOLEAN : createSale("p1", delivered, Len(sales) + 1)
  \/ createSaleFails("p1")

SpecForm == Init /\ [][NextForm]_vars

\* one terminal typing in the search box while earlier searches are in flight
NextSearch ==
  \/ \E q \in QueryInputs : setSearchQuery("p1", q)
  \/ debounceFires("p1")
  \/ handleSearchKeyPress("p1")
  \/ \E q \in Medicines, ok \in BOOLEAN : searchMedicinesResume("p1", q, ok)
  \/ \E md \in searchResults["p1"] : addToCart("p1", md)
  \/ \E b \in Batches : stockAdjustment(b)

SpecSearch == Init /\ [][NextSearch]_vars

\* --------------------------------------------------------------- claims
\* the createSale requests in flight
Requests == {saleReq[p].data : p \in {q \in Pages : saleReq[q] # NoReq}}

\* this step stores a sale
Committed == Len(sales') = Len(sales) + 1
NewSale == sales'[Len(sales')]

\* quantity the new sale takes from the batches of medicine m
RECURSIVE SoldOf(_, _)
SoldOf(rows, m) ==
  IF rows = <<>> THEN 0
  ELSE (IF medicine_id[Head(rows).inventory_id] = m THEN Head(rows).quantity
        ELSE 0) + SoldOf(Tail(rows), m)

\* C1: for every batch the quantity allocated never exceeds the quantity
\* received, and the quantity on hand is never negative, under every
\* interleaving of the checkouts of two terminals.
C1_NoOversell ==
  \A b \in Batches : allocated[b] <= received[b] /\ quantity[b] >= 0

\* C2: a sale never takes from a batch while an earlier-expiring batch of
\* the same medicine, in stock when the sale is committed, keeps stock.
C2_Fefo ==
  [][Committed =>
       \A i \in 1..Len(NewSale.sale_items) :
         \A b \in Batches :
           (/\ medicine_id[b] = medicine_id[NewSale.sale_items[i].inventory_id]
            /\ Earlier(b, NewSale.sale_items[i].inventory_id)
            /\ quantity[b] > 0
            /\ quantity[NewSale.sale_items[i].inventory_id] > 0)
           => quantity'[b] = 0]_vars

\* C3: when the quantity sold of a medicine exceeds its earliest batch in
\* stock but not its total stock, the sale is split: no line takes more than
\* the quantity on hand of its batch.
C3_SplitAcrossBatches ==
  [][Committed =>
       \A m \in Medicines :
         (/\ AvailableBatches(m) # {}
          /\ SoldOf(NewSale.sale_items, m) >
               quantity[FefoOrder(AvailableBatches(m))[1]]
          /\ SoldOf(NewSale.sale_items, m) <= getMedicineBatches(m))
         => \A i \in 1..Len(NewSale.sale_items) :
              medicine_id[NewSale.sale_items[i].inventory_id] = m
              => NewSale.sale_items[i].quantity
                   <= quantity[NewSale.sale_items[i].inventory_id]]_vars

\* C4: a checkout with a line that the stock cannot cover fails as a whole:
\* when its request has been answered, no batch quantity has changed and no
\* sale has been stored.
C4_AllOrNothing ==
  [][\A p \in Pages :
       (/\ saleReq[p] # NoReq
        /\ saleReq'[p] = NoReq
        /\ \E m \in Medicines :
             SoldOf(SaleItems(saleReq[p].data.items), m) > getMedicineBatches(m))
       => (quantity' = quantity /\ sales' = sales
           /\ saleResp'[p].kind = "error")]_vars

\* C6: in every submitted sale the subtotal is the sum of the line
\* subtotals, and the total is subtotal minus discount plus VAT.
C6_TotalsAddUp ==
  \A d \in Requests :
    /\ d.subtotal = SeqSum([i \in 1..Len(d.items) |-> d.items[i].subtotal])
    /\ \A i \in 1..Len(d.items) :
         d.items[i].subtotal = d.items[i].unitPrice * d.items[i].quantity
    /\ d.totalAmount = d.subtotal - d.discount + d.vatAmount

\* a sale of two lines with a discount is submitted
C6_Witness ==
  \E d \in Requests :
    Len(d.items) = 2 /\ d.discountPercentage = 10 /\ d.discount > 0

\* C7: the totals of a submitted sale are a function of its lines and its
\* discount percentage: discount = subtotal * pct / 100, VAT = 13% of
\* (subtotal - discount), total = (subtotal - discount) + VAT; the rate is 13
\* whatever the tax rate of the medicines sold.
C7_PricingFormula ==
  \A d \in Requests :
    /\ d.vatRate = 13
    /\ d.discount * 100 = d.subtotal * d.discountPercentage
    /\ d.vatAmount * 100 = (d.subtotal - d.discount) * 13
    /\ d.totalAmount = (d.subtotal - d.discount) + d.vatAmount

\* a sale of a medicine whose own tax rate is not 13 is submitted
C7_Witness ==
  \E d \in Requests :
    /\ \E i \in 1..Len(d.items) : tax_rate[d.items[i].medicine] # 13
    /\ d.vatAmount > 0

\* C8: no submitted sale has a discount percentage outside 0..100, a
\* negative discount, a negative taxable amount or a negative total.
C8_DiscountInRange ==
  \A d \in Requests :
    /\ d.discountPercentage >= 0 /\ d.discountPercentage <= 100
    /\ d.discount >= 0
    /\ d.subtotal - d.discount >= 0
    /\ d.totalAmount >= 0

\* C9: no line of a cart or of a submitted sale has a quantity below 1.
C9_QuantityAtLeastOne ==
  /\ \A p \in Pages : \A i \in 1..Len(cart[p]) : cart[p][i].quantity >= 1
  /\ \A d \in Requests : \A i \in 1..Len(d.items) : d.items[i].quantity >= 1

\* a sale is submitted while the - button has a change to quantity 1 of one
\* of its medicines awaiting the stock check
C9_Witness ==
  \E p \in Pages :
    /\ saleReq[p] # NoReq
    /\ qtyReq[p] # NoReq
    /\ qtyReq[p].newQuantity = 1
    /\ \E i \in 1..Len(saleReq[p].data.items) :
         /\ saleReq[p].data.items[i].medicine = qtyReq[p].medicineId
         /\ saleReq[p].data.items[i].quantity = 2

\* C10: handleCheckout on an empty cart issues no createSale request,
\* raises the error toast and changes nothing else.
C10_EmptyCartRejected ==
  [][\A p \in Pages :
       (cart[p] = <<>> /\ handleCheckout(p))
       => (/\ toast' = [page |-> p, message |-> "Cart is empty"]
           /\ UNCHANGED <<storeVars, searchResults, cart, customerName,
                          discountPercentage, isSubmitting, lastInvoiceId,
                          saleReq, saleResp, qtyReq, formVars>>)]_vars

\* the error toast of an empty checkout is up and no request is in flight
C10_Witness ==
  \E p \in Pages :
    /\ toast = [page |-> p, message |-> "Cart is empty"]
    /\ cart[p] = <<>>
    /\ saleReq[p] = NoReq
    /\ ~isSubmitting[p]

\* C11: no sale line is created against a batch that has no stock when the
\* sale is committed (the model has no clock: expiry is not covered here).
C11_NeverFromEmptyBatch ==
  [][Committed =>
       \A i \in 1..Len(NewSale.sale_items) :
         quantity[NewSale.sale_items[i].inventory_id] > 0]_vars

C16_BatchesNeverDeleted ==
  [][/\ inventory \subseteq inventory'
     /\ \A b \in Batches :
          quantity'[b] # quantity[b]
          => \/ /\ Committed
                /\ \E i \in 1..Len(NewSale.sale_items) :
                     NewSale.sale_items[i].inventory_id = b
             \/ received'[b] # received[b]]_vars

\* C17: a step that rejects an increase for insufficient stock leaves the
\* cart as it was and reports the quantity of the medicine that the store
\* holds at that moment.
C17_RejectionReportsAvailable ==
  [][toast'.message = "Insufficient stock"
     => /\ cart' = cart
        /\ toast'.available = getMedicineBatches(toast'.medicine)]_vars

\* C18: a failed request is reported on the page that issued it, and an
\* updateQuantity whose stock check failed does not change the cart.
C18_NoErrorSwallowed ==
  [][\A p \in Pages :
       /\ (\E m \in Medicines : searchMedicines(p, m, FALSE))
          => toast'.page = p
       /\ (saleResp[p] # NoReq /\ saleResp[p].kind = "error"
           /\ handleCheckoutResume(p))
          => toast'.page = p
       /\ updateQuantityResume(p, FALSE)
          => (toast'.page = p /\ cart'[p] = cart[p])]_vars

\* the checkout of page p is over: completed with the id of a stored sale of
\* that page, or failed with the error on a toast
Finished(p) ==
  /\ ~isSubmitting[p] /\ saleReq[p] = NoReq /\ saleResp[p] = NoReq
  /\ toast.page = p
  /\ \/ /\ toast.message = "Sale completed successfully!"
        /\ \E i \in 1..Len(sales) :
             sales[i].id = lastInvoiceId[p] /\ sales[i].sold_by = p
     \/ toast.message \in {"Request failed", "duplicate invoice_number",
                           "foreign key violation",
                           "Unable to connect to server"}

C26_CartInvariant ==
  \A p \in Pages :
    /\ \A i, j \in 1..Len(cart[p]) :
         cart[p][i].medicine = cart[p][j].medicine => i = j
    /\ \A i \in 1..Len(cart[p]) : cart[p][i].quantity >= 1

\* a cart of two medicines, the first at quantity 2, with no stock check
\* awaited
C26_Witness ==
  /\ Len(cart["p1"]) = 2
  /\ cart["p1"][1].quantity = 2
  /\ qtyReq["p1"] = NoReq

\* C27: when updateQuantity resumes after its stock check, the cart is the
\* cart of that moment with the quantity of the targeted medicine replaced
\* (or unchanged, when the increase is rejected): nothing else is altered.
C27_OnlyTargetChanges ==
  [][\A p \in Pages :
       (qtyReq[p] # NoReq /\ qtyReq'[p] = NoReq)
       => \/ cart'[p] = cart[p]
          \/ cart'[p] = WithQuantity(cart[p], qtyReq[p].medicineId,
                                     qtyReq[p].newQuantity)]_vars
\* the last sale a page stored before the one being stored, if any
PreviousSales(p) == {i \in 1..Len(sales) : sales[i].sold_by = p}

\* C28: a page sends no createSale request while an earlier one of its own is
\* unanswered, and one cart yields at most one sale: where the cart is
\* emptied by a successful checkout only, a page stores a sale only when the
\* sale it stored before was acknowledged to it.
C28_OneSalePerCart ==
  [][/\ \A p \in Pages :
          (saleReq[p] = NoReq /\ saleReq'[p] # NoReq)
          => ~isSubmitting[p] /\ saleResp[p] = NoReq
     /\ Committed
        => \A i \in PreviousSales(NewSale.sold_by) :
             sales[i].id <= lastInvoiceId[NewSale.sold_by]]_vars

\* C29: a successful checkout sets lastInvoiceId to the id of the sale just
\* stored and resets cart, customer name, customer mobile, discount, search
\* query and search results; a failed one changes none of these.
C29_CheckoutOutcome ==
  [][\A p \in Pages :
       (saleResp[p] # NoReq /\ saleResp'[p] = NoReq)
       => IF saleResp[p].kind = "ok"
          THEN /\ lastInvoiceId'[p] = saleResp[p].id
               /\ \E i \in 1..Len(sales) :
                    sales[i].id = lastInvoiceId'[p] /\ sales[i].sold_by = p
               /\ cart'[p] = <<>>
               /\ customerName'[p] = ""
               /\ customerMobile'[p] = ""
               /\ discountPercentage'[p] = 0
               /\ searchQuery'[p] = ""
               /\ searchResults'[p] = {}
          ELSE /\ lastInvoiceId'[p] = lastInvoiceId[p]
               /\ cart'[p] = cart[p]
               /\ customerName'[p] = customerName[p]
               /\ customerMobile'[p] = customerMobile[p]
               /\ discountPercentage'[p] = discountPercentage[p]
               /\ searchQuery'[p] = searchQuery[p]
               /\ searchResults'[p] = searchResults[p]]_vars

\* a failed checkout has just been reported on a page whose form is filled in
\* and whose earlier sale was acknowledged
C29_Witness ==
  /\ toast # NoToast
  /\ toast.page = "p1"
  /\ toast.message = "Request failed"
  /\ lastInvoiceId["p1"] = 1
  /\ cart["p1"] # <<>>
  /\ customerName["p1"] = "Sita"
  /\ customerMobile["p1"] = "9800000000"
  /\ discountPercentage["p1"] = 10
  /\ searchQuery["p1"] = "M2"
  /\ searchResults["p1"] # {}

\* C30: once every search request has settled and no search is scheduled, the
\* results shown are those of the query in the search box, the one issued
\* last, and there are none when the query is empty.
C30_ResultsOfLatestQuery ==
  \A p \in Pages :
    (searching[p] = {} /\ ~debounceTimer[p])
    => /\ searchQuery[p] = "" => searchResults[p] = {}
       /\ \A md \in searchResults[p] : md.id = searchQuery[p]

\* a call in flight or finished
Called(c) == calls[c].pc # "idle"

\* C22: one call of request sends its request at most twice and calls the
\* refresh endpoint at most once; it sends a second time only after its one
\* refresh, and a call that has sent twice ends without another refresh.
C22_BoundedRetries ==
  \A c \in Callers :
    Called(c)
    => /\ calls[c].sends \in {1, 2}
       /\ calls[c].refreshes \in {0, 1}
       /\ calls[c].sends = 2 => calls[c].refreshes = 1
       /\ calls[c].pc = "refresh" => calls[c].sends = 1

\* a call that was answered 401 twice has ended as an error after two sends
\* and one refresh
C22_Witness ==
  /\ calls["c1"].pc = "done"
  /\ calls["c1"].sends = 2
  /\ calls["c1"].refreshes = 1
  /\ calls["c1"].result = "error"
  /\ refreshToken # 0

\* the step with which the refresh of caller c ends: the request is sent a
\* second time, or ends
RefreshEnds(c) ==
  /\ calls[c].pc = "refresh"
  /\ \/ calls'[c].pc = "done"
     \/ calls'[c].pc = "fetch" /\ calls'[c].sends = 2

\* C23: a refresh that does not succeed leaves both tokens cleared in memory
\* and in localStorage and the request is not sent again; one that succeeds
\* replaces both tokens by one new pair; after either, memory and
\* localStorage hold the same pair.
C23_RefreshOutcome ==
  [][\A c \in Callers :
       RefreshEnds(c)
       => /\ accessToken' = localStorage'.accessToken
          /\ refreshToken' = localStorage'.refreshToken
          /\ IF calls'[c].pc = "fetch"
             THEN /\ accessToken' = refreshToken'
                  /\ accessToken' \notin {0, accessToken, refreshToken}
             ELSE /\ accessToken' = 0
                  /\ refreshToken' = 0
                  /\ calls'[c].sends = calls[c].sends
                  /\ calls'[c].result = "error"]_vars

\* a call has ended on a failed refresh of its own, while the other caller's
\* request is still to be answered
C23_Witness ==
  /\ calls["c1"].pc = "done"
  /\ calls["c1"].refreshes = 1
  /\ calls["c1"].sends = 1
  /\ calls["c2"].pc = "fetch"
  /\ accessToken = 0
  /\ localStorage.refreshToken = 0

\* C24: a token pair stored by a successful refresh while another request's
\* refresh was in flight is not cleared when that other refresh fails.
C24_FreshPairKept ==
  [][\A c \in Callers :
       (/\ RefreshEnds(c)
        /\ calls'[c].pc = "done"
        /\ refreshToken # 0
        /\ refreshToken # calls[c].sentToken)
       => /\ accessToken' = accessToken
          /\ refreshToken' = refreshToken
          /\ localStorage' = localStorage]_vars

\* C25: when signOut returns, whether or not the logout request succeeded,
\* the user is null and no token is left in memory or in localStorage.
C25_SignedOut ==
  [][\A c \in Callers :
       (/\ Called(c)
        /\ calls[c].endpoint = "logout"
        /\ calls[c].pc # "done"
        /\ calls'[c].pc = "done")
       => /\ user' = "none"
          /\ accessToken' = 0
          /\ refreshToken' = 0
          /\ localStorage' = [accessToken |-> 0, refreshToken |-> 0]]_vars

====
